---- MODULE Spec2Model ----
(***************************************************************************)
(* Scheduled multi-platform publication pipeline of forkpost:              *)
(* the posts table (src/main.py init_db), the HTTP handlers that mutate    *)
(* it, the one-minute sweep publish_due_tweets and the fan-out             *)
(* SocialMediaPoster.post_to_platforms (src/post.py).                      *)
(*                                                                         *)
(* Time is counted in whole hours.  `now` is the UTC instant; a datetime   *)
(* is a record [kind, wall, off]: kind "null" (None / SQL NULL), "naive"   *)
(* (no tzinfo) or "aware"; wall is the clock reading and off the UTC       *)
(* offset, so an aware datetime denotes the instant wall - off.  An ISO    *)
(* string written by isoformat() carries exactly wall and off, so the      *)
(* stored TEXT value is the same record.  America/Chicago is taken at its  *)
(* standard offset (daylight saving is not modelled).                      *)
(*                                                                         *)
(* Scheduling: handlers declared `async def` and the sweep run on one      *)
(* event loop and give it up only at an await that really suspends         *)
(* (asyncio.to_thread); handlers declared `def` run in the thread pool     *)
(* and interleave with everything.                                         *)
(***************************************************************************)
EXTENDS Integers, Sequences, FiniteSets, TLC

\* ---- bounds of the model -------------------------------------------------
MaxPosts == 2          \* rows ever inserted (ids 1..MaxPosts)
MaxTime == 1           \* the clock runs over 0..MaxTime
MaxCount == 2          \* saturation of the fan-out counters
MaxLive == 1           \* rows in the table at one time

\* ---- program constants ---------------------------------------------------
ChicagoOffset == 0 - 6 \* ZoneInfo("America/Chicago"), standard time

NULL == "NULL"         \* None / SQL NULL for TEXT values

Platforms == {"twitter", "instagram", "facebook", "pinterest"}

\* ---- datetimes -----------------------------------------------------------
NullTime == [kind |-> "null", wall |-> 0, off |-> 0]

Naive(w) == [kind |-> "naive", wall |-> w, off |-> 0]

Aware(w, o) == [kind |-> "aware", wall |-> w, off |-> o]

\* datetime.replace(tzinfo=tz): keeps the clock reading, relabels the zone
Replace(dt, tz) == Aware(dt.wall, tz)

\* a conversion that relabels the zone as replace(tzinfo=tz) does
AsTimezoneRelabels(dt, tz) == Aware(dt.wall, tz)

\* datetime.astimezone(tz): same instant, clock reading of zone tz
\* (a naive datetime is taken as local time of the process, here Chicago)
AsTimezone(dt, tz) ==
    IF dt.kind = "naive" THEN Aware(dt.wall - ChicagoOffset + tz, tz)
    ELSE Aware(dt.wall - dt.off + tz, tz)

\* the instant an aware datetime denotes (comparison of aware datetimes)
InstantOf(dt) == dt.wall - dt.off

\* datetime.now(ZoneInfo("America/Chicago"))
NowCst(t) == Aware(t + ChicagoOffset, ChicagoOffset)

\* SQLite compares the TEXT column with the bound ISO string bytewise:
\* the clock reading first, then the offset suffix ("-05:00" < "-06:00").
IsoStrLeq(a, b) ==
    \/ a.wall < b.wall
    \/ a.wall = b.wall /\ a.off >= b.off

\* to_cst applied to a non-null stored value
to_cst(dt) ==
    IF dt.kind = "naive" THEN Replace(dt, ChicagoOffset)
    ELSE AsTimezone(dt, ChicagoOffset)

\* ---- request bodies (PostCreate) -----------------------------------------
Instants == 0..(MaxTime + 1)

\* the submitted timestamps: None, naive clock readings (meant as Chicago
\* time) and timestamps carrying the offset of the zone one hour east
Offsets == {ChicagoOffset + 1}

ReqTimes ==
    {NullTime}
    \cup {Naive(t + ChicagoOffset) : t \in Instants}
    \cup {Aware(t + o, o) : t \in Instants, o \in Offsets}

TargetSets == {{"twitter", "facebook"}, {}}

BaseBody ==
    [content |-> "a", image_url |-> "i",
     scheduled_time |-> Naive(1 + ChicagoOffset),
     targets |-> {"twitter", "facebook"}]

\* the bodies tried: the base body with one of its parts varied
PostCreate ==
    {[BaseBody EXCEPT !.scheduled_time = t] : t \in ReqTimes}
    \cup {[BaseBody EXCEPT !.targets = g] : g \in TargetSets}
    \cup {[BaseBody EXCEPT !.content = NULL, !.image_url = NULL]}

\* `x or ''`
OrEmpty(x) == IF x = NULL THEN "" ELSE x

\* ---- client outcomes -----------------------------------------------------
Fail == "fail"

Outcomes == {Fail, "123"}

\* dict.get(key, default)
DictGet(d, key, default) == IF key \in DOMAIN d THEN d[key] ELSE default

\* the dict both callers build before the fan-out
PlatformsDict(row) ==
    [twitter |-> row.publish_to_twitter,
     instagram |-> row.publish_to_instagram,
     facebook |-> row.publish_to_facebook,
     pinterest |-> row.publish_to_pinterest]

\* post_to_platforms, first statement: the dict is rebuilt from the keys
\* 'publish_to_<platform>', each defaulting to False when absent
NormalisePlatforms(platforms) ==
    [twitter |-> DictGet(platforms, "publish_to_twitter", FALSE),
     instagram |-> DictGet(platforms, "publish_to_instagram", FALSE),
     facebook |-> DictGet(platforms, "publish_to_facebook", FALSE),
     pinterest |-> DictGet(platforms, "publish_to_pinterest", FALSE)]

\* a block that invokes its client whatever the flag says
PlatformBlockIgnoresFlag(fan, norm, p, oracle) ==
    [results |-> fan.results @@
                 ((p \o "_post_id") :>
                     (IF oracle[p] = Fail THEN NULL ELSE oracle[p])),
     returned |-> fan.returned @@ (p :> oracle[p])]

\* one `if platforms[p]: try ... except` block: the client is invoked, its
\* id is stored under '<p>_post_id', a failure stores None
PlatformBlock(fan, norm, p, oracle) ==
    IF norm[p]
    THEN [results |-> fan.results @@
                      ((p \o "_post_id") :>
                          (IF oracle[p] = Fail THEN NULL ELSE oracle[p])),
          returned |-> fan.returned @@ (p :> oracle[p])]
    ELSE fan

EmptyFan == [results |-> << >>, returned |-> << >>]

\* post_to_platforms: results is the returned dict, returned records which
\* clients were invoked and what each gave back (oracle: what each client
\* would do if invoked)
post_to_platforms(platforms, oracle) ==
    LET norm == NormalisePlatforms(platforms)
        f1 == PlatformBlock(EmptyFan, norm, "twitter", oracle)
        f2 == PlatformBlock(f1, norm, "instagram", oracle)
        f3 == PlatformBlock(f2, norm, "facebook", oracle)
    IN  PlatformBlock(f3, norm, "pinterest", oracle)

\* the fan-out awaited asyncio.to_thread at least once
Yielded(fan) == DOMAIN fan.returned # {}

\* ---- state ----------------------------------------------------------------
VARIABLES
    posts,       \* the posts table: id -> row
    seq,         \* sqlite_sequence for posts (AUTOINCREMENT): last id given
    now,         \* wall clock, UTC instant
    sweepPc,     \* publish_due_tweets: "idle", "dispatching", "updating"
    dueList,     \* rows fetched by the sweep and not yet processed
    sweepFan,    \* what the fan-out of the sweep's current row returned
    pubPc,       \* publish_post: "idle", "write" (fan-out returned)
    pubPost,     \* the row publish_post read
    pubFan,      \* what publish_post's fan-out returned
    resp,        \* the last HTTP response
    fanouts,     \* history: fan-outs started per post id, by caller
    calls,       \* history: (post id, platform) pairs whose client was invoked
    deleted,     \* history: ids removed by delete_post
    cancelSnap   \* history: the row as it was before the last cancel

vars == <<posts, seq, now, sweepPc, dueList, sweepFan, pubPc, pubPost,
          pubFan, resp, fanouts, calls, deleted, cancelSnap>>

Ids == 1..MaxPosts

NoSnap == [stage |-> "none"]

NoResp == [op |-> "none", status |-> 0, id |-> 0, sched |-> NullTime]

Response(op, status, id, sched) ==
    [op |-> op, status |-> status, id |-> id, sched |-> sched]

NoRow == [id |-> 0]

\* the scheduled_time a handler puts in its response body: to_cst of the
\* stored value (a NULL is replaced by a placeholder, shown here as NullTime)
ReadBack(row) ==
    IF row.scheduled_time.kind = "null" THEN NullTime
    ELSE to_cst(row.scheduled_time)

\* a row as INSERT leaves it, column defaults of init_db filled in
NewRow(id, content, image_url, sched, draft, targets, t) ==
    [id |-> id, content |-> content, image_url |-> image_url,
     scheduled_time |-> sched,
     is_published |-> FALSE, is_canceled |-> FALSE, is_draft |-> draft,
     created_at |-> t, updated_at |-> t,
     publish_to_twitter |-> "twitter" \in targets,
     publish_to_instagram |-> "instagram" \in targets,
     publish_to_facebook |-> "facebook" \in targets,
     publish_to_pinterest |-> "pinterest" \in targets,
     twitter_post_id |-> NULL, instagram_post_id |-> NULL,
     facebook_post_id |-> NULL, pinterest_post_id |-> NULL]

\* a plain INTEGER PRIMARY KEY: one more than the largest id in the table
NextIdMaxRowid(table, s) ==
    IF DOMAIN table = {} THEN 1
    ELSE 1 + CHOOSE m \in DOMAIN table : \A i \in DOMAIN table : i <= m

\* INTEGER PRIMARY KEY AUTOINCREMENT: one more than the largest id ever used
NextId(table, s) == s + 1

Insert(table, row) == table @@ (row.id :> row)

Remove(table, id) == [i \in DOMAIN table \ {id} |-> table[i]]

\* the event loop is free: no coroutine is between two of its steps without
\* having suspended in an await
LoopFree ==
    /\ sweepPc = "idle" \/ (sweepPc = "updating" /\ Yielded(sweepFan))
    /\ pubPc = "idle" \/ (pubPc = "write" /\ Yielded(pubFan))

Bump(f, id, who) ==
    [f EXCEPT ![who][id] = IF @ < MaxCount THEN @ + 1 ELSE @]

Init ==
    /\ posts = << >>
    /\ seq = 0
    /\ now = 0
    /\ sweepPc = "idle"
    /\ dueList = << >>
    /\ sweepFan = EmptyFan
    /\ pubPc = "idle"
    /\ pubPost = NoRow
    /\ pubFan = EmptyFan
    /\ resp = NoResp
    /\ fanouts = [who \in {"sweep", "publish"} |-> [i \in Ids |-> 0]]
    /\ calls = {}
    /\ deleted = {}
    /\ cancelSnap = NoSnap

\* ---- POST /posts/ ----------------------------------------------------------
\* generated: what generate_post_text gives when the body has no content
\* ("fail": it raised, answered 500)
create_scheduled_post(post, generated) ==
    /\ LoopFree
    /\ seq < MaxPosts
    /\ cancelSnap' = NoSnap
    /\ UNCHANGED <<now, sweepPc, dueList, sweepFan, pubPc, pubPost, pubFan,
                   fanouts, calls, deleted>>
    /\ IF post.scheduled_time.kind = "null"
       THEN /\ resp' = Response("create", 400, 0, NullTime)
            /\ UNCHANGED <<posts, seq>>
       ELSE LET scheduled_cst == Replace(post.scheduled_time, ChicagoOffset)
                now_cst == NowCst(now)
            IN  IF InstantOf(scheduled_cst) <= InstantOf(now_cst)
                THEN /\ resp' = Response("create", 400, 0, NullTime)
                     /\ UNCHANGED <<posts, seq>>
                ELSE IF post.content \in {NULL, ""} /\ generated = Fail
                THEN /\ resp' = Response("create", 500, 0, NullTime)
                     /\ UNCHANGED <<posts, seq>>
                ELSE LET id == NextId(posts, seq)
                         content == IF post.content \in {NULL, ""}
                                    THEN generated ELSE post.content
                         row == NewRow(id, content, post.image_url,
                                       scheduled_cst, FALSE, post.targets,
                                       now)
                     IN  /\ posts' = Insert(posts, row)
                         /\ seq' = id
                         /\ resp' = Response("create", 200, id, ReadBack(row))

\* ---- POST /drafts/ ---------------------------------------------------------
\* a draft insert that stores the request's target flags
create_draft_with_targets(post) ==
    /\ LoopFree
    /\ seq < MaxPosts
    /\ cancelSnap' = NoSnap
    /\ UNCHANGED <<now, sweepPc, dueList, sweepFan, pubPc, pubPost, pubFan,
                   fanouts, calls, deleted>>
    /\ LET scheduled_time ==
               IF post.scheduled_time.kind = "null" THEN NullTime
               ELSE Replace(post.scheduled_time, ChicagoOffset)
           id == NextId(posts, seq)
           row == NewRow(id, OrEmpty(post.content), OrEmpty(post.image_url),
                         scheduled_time, TRUE, post.targets, now)
       IN  /\ posts' = Insert(posts, row)
           /\ seq' = id
           /\ resp' = Response("create_draft", 200, id, ReadBack(row))

create_draft(post) ==
    /\ LoopFree
    /\ seq < MaxPosts
    /\ cancelSnap' = NoSnap
    /\ UNCHANGED <<now, sweepPc, dueList, sweepFan, pubPc, pubPost, pubFan,
                   fanouts, calls, deleted>>
    /\ LET scheduled_time ==
               IF post.scheduled_time.kind = "null" THEN NullTime
               ELSE Replace(post.scheduled_time, ChicagoOffset)
           id == NextId(posts, seq)
           row == NewRow(id, OrEmpty(post.content), OrEmpty(post.image_url),
                         scheduled_time, TRUE, {"twitter"}, now)
       IN  /\ posts' = Insert(posts, row)
           /\ seq' = id
           /\ resp' = Response("create_draft", 200, id, ReadBack(row))

\* ---- GET /posts/{post_id} ---------------------------------------------------
get_post(post_id) ==
    /\ LoopFree
    /\ cancelSnap' = NoSnap
    /\ UNCHANGED <<posts, seq, now, sweepPc, dueList, sweepFan, pubPc,
                   pubPost, pubFan, fanouts, calls, deleted>>
    /\ IF post_id \notin DOMAIN posts
       THEN resp' = Response("get", 404, post_id, NullTime)
       ELSE resp' = Response("get", 200, post_id, ReadBack(posts[post_id]))

\* ---- PUT /posts/{post_id} ---------------------------------------------------
\* an update that also takes the post out of the canceled state
update_post_uncancels(post_id, post) ==
    /\ LoopFree
    /\ cancelSnap' = NoSnap
    /\ UNCHANGED <<seq, now, sweepPc, dueList, sweepFan, pubPc, pubPost,
                   pubFan, fanouts, calls, deleted>>
    /\ IF post_id \notin DOMAIN posts
       THEN /\ resp' = Response("update", 404, post_id, NullTime)
            /\ UNCHANGED posts
       ELSE LET scheduled_time ==
                    IF post.scheduled_time.kind = "null" THEN NullTime
                    ELSE Replace(post.scheduled_time, ChicagoOffset)
                row == [posts[post_id] EXCEPT
                           !.content = OrEmpty(post.content),
                           !.image_url = OrEmpty(post.image_url),
                           !.scheduled_time = scheduled_time,
                           !.is_canceled = FALSE,
                           !.updated_at = now,
                           !.publish_to_twitter = "twitter" \in post.targets,
                           !.publish_to_instagram =
                               "instagram" \in post.targets,
                           !.publish_to_facebook = "facebook" \in post.targets,
                           !.publish_to_pinterest =
                               "pinterest" \in post.targets]
            IN  /\ posts' = [posts EXCEPT ![post_id] = row]
                /\ resp' = Response("update", 200, post_id, ReadBack(row))

update_post(post_id, post) ==
    /\ LoopFree
    /\ cancelSnap' = NoSnap
    /\ UNCHANGED <<seq, now, sweepPc, dueList, sweepFan, pubPc, pubPost,
                   pubFan, fanouts, calls, deleted>>
    /\ IF post_id \notin DOMAIN posts
       THEN /\ resp' = Response("update", 404, post_id, NullTime)
            /\ UNCHANGED posts
       ELSE LET scheduled_time ==
                    IF post.scheduled_time.kind = "null" THEN NullTime
                    ELSE Replace(post.scheduled_time, ChicagoOffset)
                row == [posts[post_id] EXCEPT
                           !.content = OrEmpty(post.content),
                           !.image_url = OrEmpty(post.image_url),
                           !.scheduled_time = scheduled_time,
                           !.updated_at = now,
                           !.publish_to_twitter = "twitter" \in post.targets,
                           !.publish_to_instagram =
                               "instagram" \in post.targets,
                           !.publish_to_facebook = "facebook" \in post.targets,
                           !.publish_to_pinterest =
                               "pinterest" \in post.targets]
            IN  /\ posts' = [posts EXCEPT ![post_id] = row]
                /\ resp' = Response("update", 200, post_id, ReadBack(row))

\* ---- PUT /drafts/{post_id} --------------------------------------------------
update_draft(post_id, post) ==
    /\ LoopFree
    /\ cancelSnap' = NoSnap
    /\ UNCHANGED <<seq, now, sweepPc, dueList, sweepFan, pubPc, pubPost,
                   pubFan, fanouts, calls, deleted>>
    /\ IF post_id \notin DOMAIN posts
       THEN /\ resp' = Response("update_draft", 404, post_id, NullTime)
            /\ UNCHANGED posts
       ELSE LET scheduled_time ==
                    IF post.scheduled_time.kind = "null" THEN NullTime
                    ELSE Replace(post.scheduled_time, ChicagoOffset)
                row == [posts[post_id] EXCEPT
                           !.content = OrEmpty(post.content),
                           !.image_url = OrEmpty(post.image_url),
                           !.scheduled_time = scheduled_time,
                           !.updated_at = now]
            IN  /\ posts' = [posts EXCEPT ![post_id] = row]
                /\ resp' = Response("update_draft", 200, post_id,
                                    ReadBack(row))

\* ---- POST /posts/{post_id}/schedule -----------------------------------------
Malformed == [kind |-> "malformed", wall |-> 0, off |-> 0]

ScheduleInputs == ReqTimes \cup {Malformed}

schedule_post(post_id, scheduled_time) ==
    /\ LoopFree
    /\ cancelSnap' = NoSnap
    /\ UNCHANGED <<seq, now, sweepPc, dueList, sweepFan, pubPc, pubPost,
                   pubFan, fanouts, calls, deleted>>
    /\ IF post_id \notin DOMAIN posts
       THEN /\ resp' = Response("schedule", 404, post_id, NullTime)
            /\ UNCHANGED posts
       ELSE IF scheduled_time.kind \in {"null", "malformed"}
       THEN /\ resp' = Response("schedule", 400, post_id, NullTime)
            /\ UNCHANGED posts
       ELSE LET scheduled_cst == AsTimezone(scheduled_time, ChicagoOffset)
                now_cst == NowCst(now)
            IN  IF InstantOf(scheduled_cst) <= InstantOf(now_cst)
                THEN /\ resp' = Response("schedule", 400, post_id, NullTime)
                     /\ UNCHANGED posts
                ELSE LET row == [posts[post_id] EXCEPT
                                    !.scheduled_time = scheduled_cst,
                                    !.is_draft = FALSE,
                                    !.updated_at = now]
                     IN  /\ posts' = [posts EXCEPT ![post_id] = row]
                         /\ resp' = Response("schedule", 200, post_id,
                                             ReadBack(row))

\* ---- DELETE /posts/{post_id} (thread pool) ----------------------------------
delete_post(post_id) ==
    /\ cancelSnap' = NoSnap
    /\ UNCHANGED <<seq, now, sweepPc, dueList, sweepFan, pubPc, pubPost,
                   pubFan, fanouts, calls>>
    /\ IF post_id \notin DOMAIN posts
       THEN /\ resp' = Response("delete", 404, post_id, NullTime)
            /\ UNCHANGED <<posts, deleted>>
       ELSE /\ posts' = Remove(posts, post_id)
            /\ deleted' = deleted \cup {post_id}
            /\ resp' = Response("delete", 200, post_id, NullTime)

\* ---- POST /posts/{post_id}/cancel (thread pool) -----------------------------
\* UPDATE posts SET is_canceled = 1, updated_at = CURRENT_TIMESTAMP
\* a cancel that flips the flag instead of setting it
CancelRowToggles(row, t) ==
    [row EXCEPT !.is_canceled = ~row.is_canceled, !.updated_at = t]

CancelRow(row, t) == [row EXCEPT !.is_canceled = TRUE, !.updated_at = t]

cancel_post(post_id) ==
    /\ UNCHANGED <<seq, now, sweepPc, dueList, sweepFan, pubPc, pubPost,
                   pubFan, fanouts, calls, deleted>>
    /\ IF post_id \notin DOMAIN posts
       THEN /\ resp' = Response("cancel", 404, post_id, NullTime)
            /\ cancelSnap' = NoSnap
            /\ UNCHANGED posts
       ELSE /\ posts' = [posts EXCEPT ![post_id] = CancelRow(@, now)]
            /\ cancelSnap' = [stage |-> "canceled", before |-> posts[post_id]]
            /\ resp' = Response("cancel", 200, post_id, NullTime)

\* ---- DELETE /posts/{post_id}/cancel (thread pool) ---------------------------
\* a slip that would also reset the publication flag
UncancelRowResetsPublished(row, t) ==
    [row EXCEPT !.is_canceled = FALSE, !.is_published = FALSE,
                !.updated_at = t]

\* UPDATE posts SET is_canceled = 0, updated_at = CURRENT_TIMESTAMP
UncancelRow(row, t) == [row EXCEPT !.is_canceled = FALSE, !.updated_at = t]

uncancel_post(post_id) ==
    /\ UNCHANGED <<seq, now, sweepPc, dueList, sweepFan, pubPc, pubPost,
                   pubFan, fanouts, calls, deleted>>
    /\ IF post_id \notin DOMAIN posts
       THEN /\ resp' = Response("uncancel", 404, post_id, NullTime)
            /\ cancelSnap' = NoSnap
            /\ UNCHANGED posts
       ELSE /\ posts' = [posts EXCEPT ![post_id] = UncancelRow(@, now)]
            /\ cancelSnap' =
                   IF cancelSnap.stage = "canceled"
                      /\ cancelSnap.before.id = post_id
                   THEN [stage |-> "restored", before |-> cancelSnap.before]
                   ELSE NoSnap
            /\ resp' = Response("uncancel", 200, post_id, NullTime)

\* ---- POST /posts/{post_id}/publish -------------------------------------------
\* a coroutine holds the event loop between its steps unless it is suspended
SweepHolds == sweepPc # "idle" /\ ~(sweepPc = "updating" /\ Yielded(sweepFan))

PubHolds == pubPc # "idle" /\ ~(pubPc = "write" /\ Yielded(pubFan))

Invoked(id, fan) == {<<id, p>> : p \in DOMAIN fan.returned}

\* a write that also resets the cancel flag
MarkPublishedClearsCancel(table, id, results, t) ==
    IF id \notin DOMAIN table THEN table
    ELSE [table EXCEPT
             ![id].is_published = TRUE,
             ![id].is_canceled = FALSE,
             ![id].updated_at = t,
             ![id].twitter_post_id = DictGet(results, "twitter_post_id", NULL),
             ![id].instagram_post_id =
                 DictGet(results, "instagram_post_id", NULL),
             ![id].facebook_post_id =
                 DictGet(results, "facebook_post_id", NULL),
             ![id].pinterest_post_id =
                 DictGet(results, "pinterest_post_id", NULL)]

\* a write that puts the row back when it is gone (INSERT OR REPLACE)
MarkPublishedUpsert(table, id, results, t) ==
    IF id \notin DOMAIN table
    THEN Insert(table, [NewRow(id, "", "", NullTime, FALSE, {}, t)
                           EXCEPT !.is_published = TRUE])
    ELSE [table EXCEPT
             ![id].is_published = TRUE,
             ![id].updated_at = t,
             ![id].twitter_post_id = DictGet(results, "twitter_post_id", NULL),
             ![id].instagram_post_id =
                 DictGet(results, "instagram_post_id", NULL),
             ![id].facebook_post_id =
                 DictGet(results, "facebook_post_id", NULL),
             ![id].pinterest_post_id =
                 DictGet(results, "pinterest_post_id", NULL)]

\* an UPDATE that marks the post only when some platform gave an id
MarkPublishedIfAnyId(table, id, results, t) ==
    IF id \notin DOMAIN table \/ \A k \in DOMAIN results : results[k] = NULL
    THEN table
    ELSE [table EXCEPT
             ![id].is_published = TRUE,
             ![id].updated_at = t,
             ![id].twitter_post_id = DictGet(results, "twitter_post_id", NULL),
             ![id].instagram_post_id =
                 DictGet(results, "instagram_post_id", NULL),
             ![id].facebook_post_id =
                 DictGet(results, "facebook_post_id", NULL),
             ![id].pinterest_post_id =
                 DictGet(results, "pinterest_post_id", NULL)]

\* the UPDATE both publishers run after the fan-out
MarkPublished(table, id, results, t) ==
    IF id \notin DOMAIN table THEN table
    ELSE [table EXCEPT
             ![id].is_published = TRUE,
             ![id].updated_at = t,
             ![id].twitter_post_id = DictGet(results, "twitter_post_id", NULL),
             ![id].instagram_post_id =
                 DictGet(results, "instagram_post_id", NULL),
             ![id].facebook_post_id =
                 DictGet(results, "facebook_post_id", NULL),
             ![id].pinterest_post_id =
                 DictGet(results, "pinterest_post_id", NULL)]

\* a publish-now that forgets the draft flag
ClearDraftSkipped(table, id) == table

\* `if post['is_draft']: UPDATE posts SET is_draft = 0`
ClearDraft(table, id) == [table EXCEPT ![id].is_draft = FALSE]

\* publish_post up to the return of the fan-out.  Every HTTPException raised
\* inside the try block is caught by `except Exception` and re-raised as 500.
\* a publish-now that checks the time of a draft as well, after clearing
\* is_draft (`if` in place of `elif`)
publish_post_begin_checks_drafts(post_id, oracle) ==
    /\ LoopFree
    /\ pubPc = "idle"
    /\ cancelSnap' = NoSnap
    /\ UNCHANGED <<seq, now, sweepPc, dueList, sweepFan, deleted>>
    /\ IF post_id \notin DOMAIN posts
       THEN /\ resp' = Response("publish", 500, post_id, NullTime)
            /\ UNCHANGED <<posts, pubPc, pubPost, pubFan, fanouts, calls>>
       ELSE LET post == posts[post_id]
                future ==
                    /\ post.scheduled_time.kind # "null"
                    /\ InstantOf(Replace(post.scheduled_time, ChicagoOffset))
                           > InstantOf(NowCst(now))
                fan == post_to_platforms(PlatformsDict(post), oracle)
                cleared == IF post.is_draft
                           THEN ClearDraft(posts, post_id) ELSE posts
            IN  IF post.is_published
                THEN /\ resp' = Response("publish", 500, post_id, NullTime)
                     /\ UNCHANGED <<posts, pubPc, pubPost, pubFan, fanouts,
                                    calls>>
                ELSE IF future
                THEN /\ resp' = Response("publish", 500, post_id, NullTime)
                     /\ posts' = cleared
                     /\ UNCHANGED <<pubPc, pubPost, pubFan, fanouts, calls>>
                ELSE /\ posts' = cleared
                     /\ pubPc' = "write"
                     /\ pubPost' = post
                     /\ pubFan' = fan
                     /\ fanouts' = Bump(fanouts, post_id, "publish")
                     /\ calls' = calls \cup Invoked(post_id, fan)
                     /\ UNCHANGED resp

publish_post_begin(post_id, oracle) ==
    /\ LoopFree
    /\ pubPc = "idle"
    /\ cancelSnap' = NoSnap
    /\ UNCHANGED <<seq, now, sweepPc, dueList, sweepFan, deleted>>
    /\ IF post_id \notin DOMAIN posts
       THEN /\ resp' = Response("publish", 500, post_id, NullTime)
            /\ UNCHANGED <<posts, pubPc, pubPost, pubFan, fanouts, calls>>
       ELSE LET post == posts[post_id]
                future ==
                    /\ ~post.is_draft
                    /\ post.scheduled_time.kind # "null"
                    /\ InstantOf(Replace(post.scheduled_time, ChicagoOffset))
                           > InstantOf(NowCst(now))
                fan == post_to_platforms(PlatformsDict(post), oracle)
            IN  IF post.is_published \/ future
                THEN /\ resp' = Response("publish", 500, post_id, NullTime)
                     /\ UNCHANGED <<posts, pubPc, pubPost, pubFan, fanouts,
                                    calls>>
                ELSE /\ posts' = IF post.is_draft
                                 THEN ClearDraft(posts, post_id) ELSE posts
                     /\ pubPc' = "write"
                     /\ pubPost' = post
                     /\ pubFan' = fan
                     /\ fanouts' = Bump(fanouts, post_id, "publish")
                     /\ calls' = calls \cup Invoked(post_id, fan)
                     /\ UNCHANGED resp

\* publish_post from the return of the fan-out: the UPDATE and the response,
\* whose "post" is the row as it was read (scheduled_time as stored)
publish_post_write ==
    /\ pubPc = "write"
    /\ ~SweepHolds
    /\ posts' = MarkPublished(posts, pubPost.id, pubFan.results, now)
    /\ resp' = Response("publish", 200, pubPost.id, pubPost.scheduled_time)
    /\ pubPc' = "idle"
    /\ pubPost' = NoRow
    /\ pubFan' = EmptyFan
    /\ cancelSnap' = NoSnap
    /\ UNCHANGED <<seq, now, sweepPc, dueList, sweepFan, fanouts, calls,
                   deleted>>

\* ---- publish_due_tweets (every minute) --------------------------------------
RECURSIVE SortedSeq(_)
SortedSeq(S) ==
    IF S = {} THEN << >>
    ELSE LET m == CHOOSE x \in S : \A y \in S : x <= y
         IN  <<m>> \o SortedSeq(S \ {m})

\* a due query that forgets the time
IsDueIgnoringTime(row, t) ==
    /\ row.scheduled_time.kind # "null"
    /\ ~row.is_published
    /\ ~row.is_canceled
    /\ ~row.is_draft

\* a due query that forgets the draft flag
IsDueIgnoringDraft(row, t) ==
    /\ row.scheduled_time.kind # "null"
    /\ IsoStrLeq(row.scheduled_time, NowCst(t))
    /\ ~row.is_published
    /\ ~row.is_canceled

\* a due query that forgets the cancel flag
IsDueIgnoringCancel(row, t) ==
    /\ row.scheduled_time.kind # "null"
    /\ IsoStrLeq(row.scheduled_time, NowCst(t))
    /\ ~row.is_published
    /\ ~row.is_draft

\* a due query that forgets the published flag
IsDueIgnoringPublished(row, t) ==
    /\ row.scheduled_time.kind # "null"
    /\ IsoStrLeq(row.scheduled_time, NowCst(t))
    /\ ~row.is_canceled
    /\ ~row.is_draft

\* WHERE scheduled_time <= ? AND is_published = 0 AND is_canceled = 0
\* AND is_draft = 0   (a NULL scheduled_time compares to NULL: not selected)
IsDue(row, t) ==
    /\ row.scheduled_time.kind # "null"
    /\ IsoStrLeq(row.scheduled_time, NowCst(t))
    /\ ~row.is_published
    /\ ~row.is_canceled
    /\ ~row.is_draft

DueIds(table, t) == {i \in DOMAIN table : IsDue(table[i], t)}

\* the columns the sweep selects
DueRow(row) ==
    [id |-> row.id, content |-> row.content, image_url |-> row.image_url,
     publish_to_twitter |-> row.publish_to_twitter,
     publish_to_instagram |-> row.publish_to_instagram,
     publish_to_facebook |-> row.publish_to_facebook,
     publish_to_pinterest |-> row.publish_to_pinterest]

\* fetchall(): rows in rowid order
DueQuery(table, t) ==
    LET ids == SortedSeq(DueIds(table, t))
    IN  [k \in 1..Len(ids) |-> DueRow(table[ids[k]])]

\* the SELECT at the head of the sweep
sweep_scan ==
    /\ LoopFree
    /\ sweepPc = "idle"
    /\ dueList' = DueQuery(posts, now)
    /\ sweepPc' = "dispatching"
    /\ cancelSnap' = NoSnap
    /\ UNCHANGED <<posts, seq, now, sweepFan, pubPc, pubPost, pubFan, resp,
                   fanouts, calls, deleted>>

\* loop body up to the return of the fan-out
sweep_dispatch(oracle) ==
    /\ sweepPc = "dispatching"
    /\ dueList # << >>
    /\ ~PubHolds
    /\ LET post == Head(dueList)
           fan == post_to_platforms(PlatformsDict(post), oracle)
       IN  /\ sweepFan' = fan
           /\ fanouts' = Bump(fanouts, post.id, "sweep")
           /\ calls' = calls \cup Invoked(post.id, fan)
    /\ sweepPc' = "updating"
    /\ cancelSnap' = NoSnap
    /\ UNCHANGED <<posts, seq, now, dueList, pubPc, pubPost, pubFan, resp,
                   deleted>>

\* marking one row after the other with the same results
RECURSIVE MarkAll(_, _, _, _)
MarkAll(table, rows, results, t) ==
    IF rows = << >> THEN table
    ELSE MarkAll(MarkPublished(table, Head(rows).id, results, t),
                 Tail(rows), results, t)

\* a loop body whose UPDATE has no WHERE id = ?: it marks every row of the
\* due list, dispatched or not
sweep_update_marks_all ==
    /\ sweepPc = "updating"
    /\ ~PubHolds
    /\ posts' = MarkAll(posts, dueList, sweepFan.results, now)
    /\ dueList' = Tail(dueList)
    /\ sweepPc' = "dispatching"
    /\ sweepFan' = EmptyFan
    /\ cancelSnap' = NoSnap
    /\ UNCHANGED <<seq, now, pubPc, pubPost, pubFan, resp, fanouts, calls,
                   deleted>>

\* loop body from the return of the fan-out: the UPDATE and the commit
sweep_update ==
    /\ sweepPc = "updating"
    /\ ~PubHolds
    /\ posts' = MarkPublished(posts, Head(dueList).id, sweepFan.results, now)
    /\ dueList' = Tail(dueList)
    /\ sweepPc' = "dispatching"
    /\ sweepFan' = EmptyFan
    /\ cancelSnap' = NoSnap
    /\ UNCHANGED <<seq, now, pubPc, pubPost, pubFan, resp, fanouts, calls,
                   deleted>>

\* the loop is over: finally conn.close()
sweep_finish ==
    /\ sweepPc = "dispatching"
    /\ dueList = << >>
    /\ ~PubHolds
    /\ sweepPc' = "idle"
    /\ cancelSnap' = NoSnap
    /\ UNCHANGED <<posts, seq, now, dueList, sweepFan, pubPc, pubPost, pubFan,
                   resp, fanouts, calls, deleted>>

\* ---- list queries (ids returned; ordering and paging are left out) ----------
\* a scheduled list whose include_published form forgets the draft filter
get_scheduled_posts_unfiltered(table, include_published) ==
    IF include_published
    THEN DOMAIN table
    ELSE {i \in DOMAIN table :
             /\ ~table[i].is_published
             /\ ~table[i].is_canceled
             /\ ~table[i].is_draft}

\* GET /posts/?include_published
get_scheduled_posts(table, include_published) ==
    IF include_published
    THEN {i \in DOMAIN table : ~table[i].is_draft}
    ELSE {i \in DOMAIN table :
             /\ ~table[i].is_published
             /\ ~table[i].is_canceled
             /\ ~table[i].is_draft}

\* GET /drafts/
get_drafts(table) == {i \in DOMAIN table : table[i].is_draft}

\* ---- the clock ---------------------------------------------------------------
Tick ==
    /\ now < MaxTime
    /\ now' = now + 1
    /\ UNCHANGED <<posts, seq, sweepPc, dueList, sweepFan, pubPc, pubPost,
                   pubFan, resp, fanouts, calls, deleted, cancelSnap>>

\* what generate_post_text gives: a text, or it raised
Generated == {"gen", Fail}

\* what the four clients would do if invoked
Oracles ==
    {[p \in Platforms |-> "123"],
     [p \in Platforms |-> Fail],
     [p \in Platforms |-> IF p = "facebook" THEN Fail ELSE "123"]}

\* room for one more row
Room == Cardinality(DOMAIN posts) < MaxLive

Next ==
    \/ Room /\ \E post \in PostCreate, g \in Generated :
                   create_scheduled_post(post, g)
    \/ Room /\ \E post \in PostCreate : create_draft(post)
    \/ \E id \in Ids : get_post(id)
    \/ \E id \in Ids, post \in PostCreate : update_post(id, post)
    \/ \E id \in Ids, post \in PostCreate : update_draft(id, post)
    \/ \E id \in Ids, t \in ScheduleInputs : schedule_post(id, t)
    \/ \E id \in Ids, oracle \in Oracles : publish_post_begin(id, oracle)
    \/ publish_post_write
    \/ \E id \in Ids : delete_post(id)
    \/ \E id \in Ids : cancel_post(id)
    \/ \E id \in Ids : uncancel_post(id)
    \/ sweep_scan
    \/ \E oracle \in Oracles : sweep_dispatch(oracle)
    \/ sweep_update
    \/ sweep_finish
    \/ Tick

Spec == Init /\ [][Next]_vars

\* ---- the sweep with two posts in the store and a store write that may fail ---
MaxLiveSweep == 2

\* an error that leaves the loop instead of going on with the next row
sweep_except_aborts ==
    /\ sweepPc = "updating"
    /\ ~PubHolds
    /\ dueList' = << >>
    /\ sweepPc' = "idle"
    /\ sweepFan' = EmptyFan
    /\ cancelSnap' = NoSnap
    /\ UNCHANGED <<posts, seq, now, pubPc, pubPost, pubFan, resp, fanouts,
                   calls, deleted>>

\* the UPDATE of the loop body raised (the store refused the write): nothing
\* is written, `except Exception` prints the error and the loop continues
sweep_except ==
    /\ sweepPc = "updating"
    /\ ~PubHolds
    /\ dueList' = Tail(dueList)
    /\ sweepPc' = "dispatching"
    /\ sweepFan' = EmptyFan
    /\ cancelSnap' = NoSnap
    /\ UNCHANGED <<posts, seq, now, pubPc, pubPost, pubFan, resp, fanouts,
                   calls, deleted>>

\* the bodies tried here: a post with content, both targets and a time
SweepBodies == {BaseBody}

RoomSweep == Cardinality(DOMAIN posts) < MaxLiveSweep

\* the steps of a sweep that has scanned
SweepStep ==
    \/ \E oracle \in Oracles : sweep_dispatch(oracle)
    \/ sweep_update
    \/ sweep_except
    \/ sweep_finish

SweepNext ==
    \/ RoomSweep /\ \E post \in SweepBodies : create_scheduled_post(post, "gen")
    \/ \E id \in Ids, oracle \in Oracles : publish_post_begin(id, oracle)
    \/ publish_post_write
    \/ \E id \in Ids : delete_post(id)
    \/ \E id \in Ids : cancel_post(id)
    \/ \E id \in Ids : uncancel_post(id)
    \/ sweep_scan
    \/ \E oracle \in Oracles : sweep_dispatch(oracle)
    \/ sweep_update
    \/ sweep_except
    \/ sweep_finish
    \/ Tick

\* a coroutine that holds the event loop runs on to its next step
SweepSpec ==
    /\ Init
    /\ [][SweepNext]_vars
    /\ WF_vars(SweepStep)
    /\ WF_vars(publish_post_write)

\* ---- recurring sweeps over a store that accepts every write -----------------
\* the steps of a sweep that has scanned, none of its writes raising
SweepStepOk ==
    \/ \E oracle \in Oracles : sweep_dispatch(oracle)
    \/ sweep_update
    \/ sweep_finish

\* the bodies an update is tried with: the same time again, and no time
LiveBodies == {BaseBody, [BaseBody EXCEPT !.scheduled_time = NullTime]}

LiveNext ==
    \/ RoomSweep /\ \E post \in SweepBodies : create_scheduled_post(post, "gen")
    \/ \E id \in Ids, post \in LiveBodies : update_post(id, post)
    \/ \E id \in Ids, oracle \in Oracles : publish_post_begin(id, oracle)
    \/ publish_post_write
    \/ \E id \in Ids : delete_post(id)
    \/ \E id \in Ids : cancel_post(id)
    \/ \E id \in Ids : uncancel_post(id)
    \/ sweep_scan
    \/ \E oracle \in Oracles : sweep_dispatch(oracle)
    \/ sweep_update
    \/ sweep_finish
    \/ Tick

\* the interval job starts a sweep again and again, and a coroutine that
\* holds the event loop runs on to its next step
LiveSpec ==
    /\ Init
    /\ [][LiveNext]_vars
    /\ WF_vars(sweep_scan)
    /\ WF_vars(SweepStepOk)
    /\ WF_vars(publish_post_write)

\* ==== properties ===============================================================

\* the instant a submitted timestamp denotes: its own offset when it carries
\* one, Chicago time when it carries none
SubmittedInstant(dt) ==
    IF dt.kind = "naive" THEN dt.wall - ChicagoOffset ELSE dt.wall - dt.off

\* the platforms a row targets
Targeted(row) ==
    {p \in Platforms :
        \/ p = "twitter" /\ row.publish_to_twitter
        \/ p = "instagram" /\ row.publish_to_instagram
        \/ p = "facebook" /\ row.publish_to_facebook
        \/ p = "pinterest" /\ row.publish_to_pinterest}

NoPlatformId(row) ==
    /\ row.twitter_post_id = NULL
    /\ row.instagram_post_id = NULL
    /\ row.facebook_post_id = NULL
    /\ row.pinterest_post_id = NULL

\* C1: no post is a draft and published at the same time, in any reachable
\* state, the states inside publish-now on a draft included.
C1_NeverDraftAndPublished ==
    \A i \in DOMAIN posts : ~(posts[i].is_draft /\ posts[i].is_published)

\* publish-now on a draft is between clearing is_draft and writing is_published
C1_Witness ==
    /\ pubPc = "write"
    /\ pubPost.is_draft
    /\ pubPost.id \in DOMAIN posts
    /\ ~posts[pubPost.id].is_draft
    /\ ~posts[pubPost.id].is_published

FanoutExact(row, fan) ==
    /\ DOMAIN fan.returned = Targeted(row)
    /\ \A p \in Platforms \ Targeted(row) :
           DictGet(fan.results, p \o "_post_id", NULL) = NULL

C3_InvokesExactlyTargeted ==
    /\ sweepPc = "updating" => FanoutExact(Head(dueList), sweepFan)
    /\ pubPc = "write" => FanoutExact(pubPost, pubFan)

\* C4: when a fan-out has returned, every targeted client was invoked, the
\* result of a failed client is null and the result of every other one is
\* the id it returned.
FanoutIsolated(row, fan) ==
    \A p \in Targeted(row) :
        /\ p \in DOMAIN fan.returned
        /\ DictGet(fan.results, p \o "_post_id", NULL) =
               (IF fan.returned[p] = Fail THEN NULL ELSE fan.returned[p])

C4_FailureIsolated ==
    /\ sweepPc = "updating" => FanoutIsolated(Head(dueList), sweepFan)
    /\ pubPc = "write" => FanoutIsolated(pubPost, pubFan)

\* C5: the write after a fan-out marks the post published whatever the
\* fan-out returned, and publish-now then answers 200.
C5_PublishedRegardless ==
    [][/\ (sweepPc = "updating" /\ sweepPc' = "dispatching"
              /\ Head(dueList).id \in DOMAIN posts)
          => posts'[Head(dueList).id].is_published
       /\ (pubPc = "write" /\ pubPc' = "idle")
          => /\ resp'.op = "publish" /\ resp'.status = 200
             /\ pubPost.id \in DOMAIN posts
                    => posts'[pubPost.id].is_published]_vars

\* a post is published although no platform was targeted and no id came back
C5_Witness ==
    \E i \in DOMAIN posts :
        /\ posts[i].is_published
        /\ Targeted(posts[i]) = {}
        /\ NoPlatformId(posts[i])

\* a post is published although it targets platforms and none gave an id
C5_WitnessTargeted ==
    \E i \in DOMAIN posts :
        /\ posts[i].is_published
        /\ Targeted(posts[i]) # {}
        /\ NoPlatformId(posts[i])

\* C6: no post is handed to the fan-out by more than one sweep, so a second
\* sweep makes no client call for a post an earlier sweep processed; the rows
\* a sweep still has to process were never dispatched by a sweep before.
C6_SweepDispatchesOnce ==
    /\ \A i \in Ids : fanouts["sweep"][i] <= 1
    /\ \A k \in 1..Len(dueList) :
           (k > 1 \/ sweepPc = "dispatching")
               => fanouts["sweep"][dueList[k].id] = 0

\* a second sweep has scanned after a first one processed a post, and
\* selected nothing
C6_Witness ==
    /\ sweepPc = "dispatching"
    /\ dueList = << >>
    /\ \E i \in DOMAIN posts :
           fanouts["sweep"][i] = 1 /\ posts[i].is_published

\* C7: create-scheduled with no scheduled_time, or with one that denotes an
\* instant <= now, answers 400 and adds no post.
C7_RejectsPastOrAbsent ==
    [][\A post \in PostCreate, g \in Generated :
           (/\ create_scheduled_post(post, g)
            /\ \/ post.scheduled_time.kind = "null"
               \/ SubmittedInstant(post.scheduled_time) <= now)
           => (resp'.status = 400 /\ posts' = posts)]_vars

\* C8: create-scheduled with a scheduled_time after now succeeds (the text
\* generator permitting), stores an unpublished, non-canceled non-draft with
\* the requested targets, and the time read back from the response and from
\* the stored row denotes the submitted instant.
C8_FutureRoundTrips ==
    [][\A post \in PostCreate, g \in Generated :
           (/\ create_scheduled_post(post, g)
            /\ post.scheduled_time.kind # "null"
            /\ SubmittedInstant(post.scheduled_time) > now
            /\ (post.content = NULL => g # Fail))
           => /\ resp'.status = 200
              /\ resp'.id \in DOMAIN posts' \ DOMAIN posts
              /\ LET row == posts'[resp'.id]
                 IN  /\ ~row.is_draft /\ ~row.is_published /\ ~row.is_canceled
                     /\ Targeted(row) = post.targets
                     /\ InstantOf(resp'.sched) =
                            SubmittedInstant(post.scheduled_time)
                     /\ InstantOf(ReadBack(row)) =
                            SubmittedInstant(post.scheduled_time)]_vars

\* C9: cancel followed by uncancel leaves is_canceled = 0 and every other
\* column but updated_at as it was before the cancel.
C9_CancelUncancelRestores ==
    cancelSnap.stage = "restored" =>
        LET before == cancelSnap.before
        IN  /\ before.id \in DOMAIN posts
            /\ posts[before.id] =
                   [before EXCEPT !.is_canceled = FALSE,
                                  !.updated_at = posts[before.id].updated_at]

\* cancel then uncancel have run on a scheduled post with content and a time
C9_Witness ==
    /\ cancelSnap.stage = "restored"
    /\ resp.op = "uncancel"
    /\ cancelSnap.before.scheduled_time.kind # "null"
    /\ ~cancelSnap.before.is_canceled

\* C10: delete of a missing id answers 404 and changes nothing; delete of an
\* existing id answers 200, and a deleted id is from then on in no row, no
\* get and no list query, its id never given to a later post.
C10_DeleteRemovesForGood ==
    [][/\ \A id \in Ids :
              delete_post(id) =>
                  IF id \in DOMAIN posts
                  THEN resp'.status = 200 /\ id \notin DOMAIN posts'
                  ELSE resp'.status = 404 /\ posts' = posts
       /\ \A id \in deleted' :
              /\ id \notin DOMAIN posts'
              /\ id \notin get_scheduled_posts(posts', TRUE)
              /\ id \notin get_scheduled_posts(posts', FALSE)
              /\ id \notin get_drafts(posts')
              /\ id \notin DueIds(posts', now')
              /\ (resp'.op = "get" /\ resp'.id = id) => resp'.status = 404
              /\ seq' >= id]_vars

\* a post was deleted, another was created after it, and a get of the deleted
\* id was answered 404
C10_Witness ==
    \E id \in deleted :
        /\ DOMAIN posts # {}
        /\ resp = Response("get", 404, id, NullTime)

\* the columns of a post that a publication is said to freeze
Frozen(row) ==
    <<row.content, row.image_url, row.scheduled_time, Targeted(row),
      row.is_canceled>>

\* C11: no step changes the content, image_url, scheduled_time, target flags
\* or is_canceled of a post that has is_published = 1.
C11_PublishedImmutable ==
    [][\A i \in DOMAIN posts \cap DOMAIN posts' :
           posts[i].is_published => Frozen(posts'[i]) = Frozen(posts[i])]_vars

\* C12: a post that has is_published = 1 has is_published = 1 after every
\* step that leaves the post in the store.
C12_PublicationIrreversible ==
    [][\A i \in DOMAIN posts \cap DOMAIN posts' :
           posts[i].is_published => posts'[i].is_published]_vars

\* a published post has since been rewritten by an update and is still
\* published
C12_Witness ==
    /\ resp.op = "update"
    /\ resp.status = 200
    /\ resp.id \in DOMAIN posts
    /\ posts[resp.id].is_published
    /\ posts[resp.id].updated_at > posts[resp.id].created_at

\* C13: publish-now on a post that is already published, or on a non-draft
\* whose scheduled_time denotes an instant after now, is answered 400.
C13_PublishNowAnswers400 ==
    [][\A id \in DOMAIN posts, oracle \in Oracles :
           (/\ publish_post_begin(id, oracle)
            /\ \/ posts[id].is_published
               \/ /\ ~posts[id].is_draft
                  /\ posts[id].scheduled_time.kind # "null"
                  /\ InstantOf(posts[id].scheduled_time) > now)
           => (resp'.op = "publish" /\ resp'.status = 400)]_vars

\* C14: publish-now runs the fan-out for a non-draft only if the post is
\* unpublished, not canceled and has a scheduled_time that denotes an
\* instant <= now.
C14_PublishNowOnlyWhenDue ==
    [][\A id \in DOMAIN posts, oracle \in Oracles :
           (/\ publish_post_begin(id, oracle)
            /\ ~posts[id].is_draft
            /\ pubPc' = "write")
           => /\ ~posts[id].is_published
              /\ ~posts[id].is_canceled
              /\ posts[id].scheduled_time.kind # "null"
              /\ InstantOf(posts[id].scheduled_time) <= now]_vars

\* C15: publish-now on a draft goes on to the fan-out whatever the draft's
\* scheduled_time is, with is_draft cleared, and when it returns it answers
\* 200 and the post, if still stored, has is_draft = 0 and is_published = 1.
C15_PublishNowOnDraft ==
    [][/\ \A id \in DOMAIN posts, oracle \in Oracles :
              (publish_post_begin(id, oracle) /\ posts[id].is_draft)
              => (pubPc' = "write" /\ ~posts'[id].is_draft)
       /\ (pubPc = "write" /\ pubPc' = "idle" /\ pubPost.is_draft)
          => /\ resp'.op = "publish" /\ resp'.status = 200
             /\ pubPost.id \in DOMAIN posts
                    => /\ ~posts'[pubPost.id].is_draft
                       /\ posts'[pubPost.id].is_published]_vars

\* publish-now has returned 200 for a post whose scheduled_time is still in
\* the future (only a draft gets that far), and the post is a published
\* non-draft
C15_Witness ==
    /\ resp.op = "publish"
    /\ resp.status = 200
    /\ resp.sched.kind # "null"
    /\ InstantOf(resp.sched) > now
    /\ resp.id \in DOMAIN posts
    /\ ~posts[resp.id].is_draft
    /\ posts[resp.id].is_published

C16_WitnessRefused ==
    /\ resp.op = "schedule"
    /\ resp.status = 400
    /\ resp.id \in DOMAIN posts
    /\ posts[resp.id].is_draft

\* C17: whenever a step leaves a non-draft post with a scheduled_time it did
\* not have before (a new post, or a changed time), that time denotes an
\* instant after now.
C17_StoredTimeIsFuture ==
    [][\A i \in DOMAIN posts' :
           (/\ ~posts'[i].is_draft
            /\ posts'[i].scheduled_time.kind # "null"
            /\ \/ i \notin DOMAIN posts
               \/ posts[i].scheduled_time # posts'[i].scheduled_time)
           => InstantOf(posts'[i].scheduled_time) > now]_vars

\* C18: every by-id operation called with an id that is not in the store
\* answers 404, starts no fan-out, invokes no client and leaves the store
\* unchanged.
C18_MissingIdIs404 ==
    [][\A id \in Ids \ DOMAIN posts :
           (\/ get_post(id)
            \/ \E post \in PostCreate : update_post(id, post)
            \/ \E post \in PostCreate : update_draft(id, post)
            \/ \E oracle \in Oracles : publish_post_begin(id, oracle)
            \/ delete_post(id)
            \/ cancel_post(id)
            \/ uncancel_post(id)
            \/ \E t \in ScheduleInputs : schedule_post(id, t))
           => /\ resp'.status = 404
              /\ resp'.id = id
              /\ posts' = posts
              /\ calls' = calls
              /\ fanouts' = fanouts]_vars

C21_OneLogicalState ==
    \A i \in DOMAIN posts :
        /\ ~(posts[i].is_draft /\ posts[i].is_canceled)
        /\ ~(posts[i].is_published /\ posts[i].is_canceled)

\* C22: a post that is a draft was never selected or dispatched by a sweep
\* and is not published, whatever its scheduled_time.
C22_DraftNeverSwept ==
    \A i \in DOMAIN posts :
        posts[i].is_draft =>
            /\ fanouts["sweep"][i] = 0
            /\ ~posts[i].is_published
            /\ \A k \in 1..Len(dueList) : dueList[k].id # i

\* a sweep has just scanned while a draft was stored whose scheduled_time is
\* not in the future, and selected nothing
C22_Witness ==
    /\ sweepPc = "dispatching"
    /\ dueList = << >>
    /\ \E i \in DOMAIN posts :
           /\ posts[i].is_draft
           /\ ~posts[i].is_canceled
           /\ posts[i].scheduled_time.kind # "null"
           /\ InstantOf(posts[i].scheduled_time) <= now

C23_WitnessDraft ==
    \E i \in DOMAIN posts :
        /\ posts[i].is_draft
        /\ posts[i].is_canceled
        /\ i \in get_drafts(posts)
        /\ i \notin get_scheduled_posts(posts, TRUE)

\* C24: every step that changes a stored post leaves its updated_at at the
\* time of the step.
C24_MutationStampsUpdatedAt ==
    [][\A i \in DOMAIN posts \cap DOMAIN posts' :
           posts'[i] # posts[i] => posts'[i].updated_at = now]_vars

\* the external id a row holds for a platform
PlatformId(row, p) ==
    CASE p = "twitter" -> row.twitter_post_id
      [] p = "instagram" -> row.instagram_post_id
      [] p = "facebook" -> row.facebook_post_id
      [] p = "pinterest" -> row.pinterest_post_id

\* what a publisher may write for platform p after the fan-out fan of row:
\* the id the client returned if p was targeted and its client succeeded,
\* null otherwise
WrittenId(row, fan, p) ==
    IF p \in Targeted(row) /\ p \in DOMAIN fan.returned
       /\ fan.returned[p] # Fail
    THEN fan.returned[p] ELSE NULL

\* C25: a stored external id is non-null only on a published post whose
\* client for that platform was invoked; a new post has no id, and an id
\* changes only in the write after a fan-out of that post, to the id the
\* client returned if the platform was targeted and the client succeeded,
\* to null otherwise.
C25_IdsOnlyFromSuccess ==
    /\ [](\A i \in DOMAIN posts : \A p \in Platforms :
              PlatformId(posts[i], p) # NULL
                  => (posts[i].is_published /\ <<i, p>> \in calls))
    /\ [][\A i \in DOMAIN posts' : \A p \in Platforms :
              IF i \notin DOMAIN posts
              THEN PlatformId(posts'[i], p) = NULL
              ELSE /\ PlatformId(posts'[i], p) # PlatformId(posts[i], p)
                      => \/ sweepPc = "updating" /\ Head(dueList).id = i
                         \/ pubPc = "write" /\ pubPost.id = i
                   /\ (sweepPc = "updating" /\ sweepPc' = "dispatching"
                          /\ Head(dueList).id = i /\ posts' # posts)
                      => PlatformId(posts'[i], p) =
                             WrittenId(Head(dueList), sweepFan, p)
                   /\ (pubPc = "write" /\ pubPc' = "idle" /\ pubPost.id = i)
                      => PlatformId(posts'[i], p) =
                             WrittenId(pubPost, pubFan, p)]_vars

\* a post that targets some platforms and not others has been published by
\* publish-now and holds no external id
C25_Witness ==
    /\ resp.op = "publish"
    /\ resp.status = 200
    /\ resp.id \in DOMAIN posts
    /\ posts[resp.id].is_published
    /\ Targeted(posts[resp.id]) = {"twitter", "facebook"}
    /\ NoPlatformId(posts[resp.id])

\* C26: with sweeps recurring and every write succeeding, a post that is due
\* is eventually published, unless it is deleted, canceled or given a
\* scheduled_time that is absent or in the future.
C26_DueEventuallyPublished ==
    \A i \in Ids :
        (i \in DOMAIN posts /\ IsDue(posts[i], now))
        ~> \/ i \notin DOMAIN posts
           \/ posts[i].is_published
           \/ posts[i].is_canceled
           \/ posts[i].scheduled_time.kind = "null"
           \/ InstantOf(posts[i].scheduled_time) > now

\* a post that was created with a future time, left alone and never handed
\* to publish-now has been published by a sweep
C26_Witness ==
    \E i \in DOMAIN posts :
        /\ posts[i].is_published
        /\ ~posts[i].is_canceled
        /\ fanouts["sweep"][i] = 1
        /\ fanouts["publish"][i] = 0
        /\ posts[i].created_at < posts[i].updated_at
        /\ sweepPc = "idle"

\* C27: every stored post is filed under its own id; no step changes the id
\* or created_at of a stored post; a post that enters the store gets an id
\* that was never used before, the ids of deleted posts included.
C27_IdsUniqueImmutable ==
    /\ [](\A i \in DOMAIN posts :
              posts[i].id = i /\ i <= seq /\ i \notin deleted)
    /\ [][/\ \A i \in DOMAIN posts \cap DOMAIN posts' :
                 /\ posts'[i].id = posts[i].id
                 /\ posts'[i].created_at = posts[i].created_at
          /\ \A i \in DOMAIN posts' \ DOMAIN posts :
                 /\ posts'[i].id = i
                 /\ i > seq
                 /\ i \notin deleted]_vars

\* a post was deleted, a later post was created under a larger id and has
\* since been rewritten by an update at a later time
C27_Witness ==
    /\ deleted # {}
    /\ resp.op = "update"
    /\ resp.status = 200
    /\ resp.id \in DOMAIN posts
    /\ \A d \in deleted : resp.id > d
    /\ posts[resp.id].id = resp.id
    /\ posts[resp.id].created_at < posts[resp.id].updated_at

\* C28: a sweep moves idle -> dispatching -> updating -> dispatching ... ->
\* idle; its due list is the due query taken at the scan and afterwards only
\* loses its head, after that head's write or caught error; a fan-out of the
\* sweep starts only from dispatching, for the head of the list; a post
\* becomes published only in the write that follows its own fan-out.
C28_SweepStepOrder ==
    [][/\ sweepPc' # sweepPc
          => <<sweepPc, sweepPc'>> \in
                 {<<"idle", "dispatching">>, <<"dispatching", "updating">>,
                  <<"updating", "dispatching">>, <<"dispatching", "idle">>}
       /\ (sweepPc = "idle" /\ sweepPc' = "dispatching")
          => dueList' = DueQuery(posts, now)
       /\ dueList' # dueList
          => \/ sweepPc = "idle" /\ sweepPc' = "dispatching"
             \/ /\ sweepPc = "updating" /\ sweepPc' = "dispatching"
                /\ dueList' = Tail(dueList)
       /\ fanouts'["sweep"] # fanouts["sweep"]
          => /\ sweepPc = "dispatching" /\ sweepPc' = "updating"
             /\ fanouts' = Bump(fanouts, Head(dueList).id, "sweep")
       /\ (sweepPc = "dispatching" /\ sweepPc' = "updating")
          => fanouts'["sweep"][Head(dueList).id] >= 1
       /\ \A i \in DOMAIN posts \cap DOMAIN posts' :
              (~posts[i].is_published /\ posts'[i].is_published)
              => \/ /\ sweepPc = "updating" /\ sweepPc' = "dispatching"
                    /\ Head(dueList).id = i
                    /\ fanouts["sweep"][i] >= 1
                 \/ /\ pubPc = "write" /\ pubPc' = "idle"
                    /\ pubPost.id = i]_vars

\* one sweep selected posts 1 and 2: post 1 has been dispatched and marked,
\* the fan-out of post 2 has returned and its write is still to come
C28_Witness ==
    /\ sweepPc = "updating"
    /\ Len(dueList) = 1
    /\ Head(dueList).id = 2
    /\ DOMAIN posts = {1, 2}
    /\ fanouts["sweep"][1] = 1
    /\ fanouts["publish"][1] = 0
    /\ posts[1].is_published
    /\ fanouts["sweep"][2] = 1
    /\ ~posts[2].is_published
    /\ posts[2].created_at = 0
    /\ posts[2].updated_at = 0

\* C29: while a post has is_canceled = 1 (a cancel succeeded and no uncancel
\* followed), no sweep starts a fan-out for it and no sweep marks it
\* published.
C29_CanceledNotSwept ==
    [][\A i \in DOMAIN posts \cap DOMAIN posts' :
           posts[i].is_canceled
           => /\ fanouts'["sweep"][i] = fanouts["sweep"][i]
              /\ ~(/\ sweepPc = "updating"
                   /\ Head(dueList).id = i
                   /\ ~posts[i].is_published
                   /\ posts'[i].is_published)]_vars

C32_DeletedNotRecreated ==
    /\ [][(/\ sweepPc = "updating" /\ sweepPc' = "dispatching"
           /\ Head(dueList).id \notin DOMAIN posts)
          => posts' = posts]_vars
    /\ [](\A id \in deleted :
              /\ id \notin DOMAIN posts
              /\ id \notin get_scheduled_posts(posts, TRUE)
              /\ id \notin get_scheduled_posts(posts, FALSE)
              /\ id \notin get_drafts(posts)
              /\ id \notin DueIds(posts, now))

\* a sweep had a post in its due list, the post was deleted, and the sweep
\* has finished its pass: the store is empty
C32_Witness ==
    /\ sweepPc = "idle"
    /\ posts = << >>
    /\ resp.op = "delete"
    /\ resp.status = 200
    /\ resp.id \in deleted
    /\ fanouts["sweep"][resp.id] = 1

\* the post was deleted after the sweep read it and before the sweep's write
C32_WitnessInFlight ==
    /\ sweepPc = "updating"
    /\ Head(dueList).id \in deleted
    /\ Head(dueList).id \notin DOMAIN posts

\* a step of a publish operation that may write: publish-now up to and from
\* its fan-out, and the write of the sweep
PublishStep ==
    \/ pubPc' # pubPc
    \/ sweepPc = "updating" /\ sweepPc' = "dispatching"

\* C33: a step of a publish operation adds and removes no row, leaves
\* content, image_url, scheduled_time, target flags, is_canceled, id and
\* created_at of every row as they are, and changes is_draft only from 1 to 0
\* at the start of publish-now.
C33_PublishWritesOnlyItsColumns ==
    [][PublishStep =>
          /\ DOMAIN posts' = DOMAIN posts
          /\ \A i \in DOMAIN posts :
                 /\ Frozen(posts'[i]) = Frozen(posts[i])
                 /\ posts'[i].id = posts[i].id
                 /\ posts'[i].created_at = posts[i].created_at
                 /\ posts'[i].is_draft # posts[i].is_draft
                        => (posts[i].is_draft /\ pubPc = "idle")]_vars

\* publish-now has returned for a post that is canceled: the post is
\* published and still canceled, with its content and targets
C33_Witness ==
    /\ resp.op = "publish"
    /\ resp.status = 200
    /\ resp.id \in DOMAIN posts
    /\ posts[resp.id].is_published
    /\ posts[resp.id].is_canceled
    /\ posts[resp.id].content = "a"
    /\ Targeted(posts[resp.id]) = {"twitter", "facebook"}

\* a cancel was committed while publish-now was between its fan-out and its
\* write
C33_WitnessInFlight ==
    /\ pubPc = "write"
    /\ pubPost.id \in DOMAIN posts
    /\ ~pubPost.is_canceled
    /\ posts[pubPost.id].is_canceled

\* C34: update and update-draft on a stored post leave its is_draft,
\* is_published, is_canceled, created_at, id and four platform ids as they
\* were, for every request body.
C34_UpdateKeepsLifecycle ==
    [][\A id \in DOMAIN posts, post \in PostCreate :
           (/\ resp'.op \in {"update", "update_draft"}
            /\ resp'.id = id
            /\ update_post(id, post) \/ update_draft(id, post))
           => /\ id \in DOMAIN posts'
              /\ posts'[id].is_draft = posts[id].is_draft
              /\ posts'[id].is_published = posts[id].is_published
              /\ posts'[id].is_canceled = posts[id].is_canceled
              /\ posts'[id].created_at = posts[id].created_at
              /\ posts'[id].id = posts[id].id
              /\ \A p \in Platforms :
                     PlatformId(posts'[id], p) = PlatformId(posts[id], p)]_vars

\* an update has rewritten a canceled non-draft at a later time than its
\* creation and the post is still canceled
C34_Witness ==
    /\ resp.op = "update"
    /\ resp.status = 200
    /\ resp.id \in DOMAIN posts
    /\ posts[resp.id].is_canceled
    /\ ~posts[resp.id].is_draft
    /\ ~posts[resp.id].is_published
    /\ posts[resp.id].updated_at > posts[resp.id].created_at

\* C35: every non-draft, unpublished, non-canceled post has a scheduled_time
\* that is not NULL.
C35_ScheduledHasTime ==
    \A i \in DOMAIN posts :
        (~posts[i].is_draft /\ ~posts[i].is_published /\ ~posts[i].is_canceled)
        => posts[i].scheduled_time.kind # "null"

\* C36: cancel on a post that is already canceled, and uncancel on a post
\* that is not canceled, are answered 200 and change nothing in the store
\* but the updated_at of that post.
C36_CancelIdempotent ==
    [][\A id \in DOMAIN posts :
           (\/ /\ resp'.op = "cancel"
               /\ cancel_post(id)
               /\ posts[id].is_canceled
            \/ /\ resp'.op = "uncancel"
               /\ uncancel_post(id)
               /\ ~posts[id].is_canceled)
           => /\ resp'.status = 200
              /\ id \in DOMAIN posts'
              /\ posts' = [posts EXCEPT
                              ![id].updated_at = posts'[id].updated_at]]_vars

\* a cancel has been applied to a post that was canceled already, at a later
\* time than the first
C36_Witness ==
    /\ cancelSnap.stage = "canceled"
    /\ cancelSnap.before.is_canceled
    /\ resp.op = "cancel"
    /\ resp.status = 200
    /\ resp.id \in DOMAIN posts
    /\ posts[resp.id].is_canceled
    /\ posts[resp.id].updated_at > cancelSnap.before.updated_at

\* C37: a publish-now that is answered with an error (it does not go on to
\* its fan-out) has invoked no platform client, run no fan-out and left every
\* post of the store as it was.
C37_PublishErrorNoEffect ==
    [][\A id \in Ids, oracle \in Oracles :
           (/\ pubPc = "idle"
            /\ pubPc' = "idle"
            /\ resp'.op = "publish"
            /\ resp'.status >= 400
            /\ publish_post_begin(id, oracle))
           => /\ posts' = posts
              /\ calls' = calls
              /\ fanouts' = fanouts]_vars

\* publish-now has been refused for a draft-free post scheduled after now
C37_Witness ==
    /\ resp.op = "publish"
    /\ resp.status >= 400
    /\ resp.id \in DOMAIN posts
    /\ ~posts[resp.id].is_published
    /\ ~posts[resp.id].is_draft
    /\ posts[resp.id].scheduled_time.kind # "null"
    /\ InstantOf(posts[resp.id].scheduled_time) > now
    /\ fanouts.publish[resp.id] = 0

\* publish-now has been refused for a post that is published
C37_WitnessPublished ==
    /\ resp.op = "publish"
    /\ resp.status >= 400
    /\ resp.id \in DOMAIN posts
    /\ posts[resp.id].is_published
    /\ fanouts.publish[resp.id] + fanouts.sweep[resp.id] = 1

\* C38: a post inserted by create-draft has twitter enabled and the other
\* three targets disabled whatever targets the request named, and
\* update-draft leaves the four target flags of its post as they were.
C38_DraftsNeverWriteTargets ==
    [][/\ \A post \in PostCreate :
              (resp'.op = "create_draft" /\ create_draft(post))
              => /\ resp'.id \in DOMAIN posts' \ DOMAIN posts
                 /\ Targeted(posts'[resp'.id]) = {"twitter"}
       /\ \A id \in DOMAIN posts, post \in PostCreate :
              (resp'.op = "update_draft" /\ resp'.id = id
               /\ update_draft(id, post))
              => Targeted(posts'[id]) = Targeted(posts[id])]_vars

\* update-draft has rewritten the content of a post created with twitter and
\* facebook enabled, and the post has these targets still
C38_Witness ==
    /\ resp.op = "update_draft"
    /\ resp.status = 200
    /\ resp.id \in DOMAIN posts
    /\ Targeted(posts[resp.id]) = {"twitter", "facebook"}
    /\ posts[resp.id].content # "a"

\* create-draft has stored a post
C38_WitnessCreate ==
    /\ resp.op = "create_draft"
    /\ resp.status = 200
    /\ resp.id \in DOMAIN posts
    /\ posts[resp.id].is_draft
    /\ Targeted(posts[resp.id]) = {"twitter"}

====
